---- MODULE Spec2Model ----
(***************************************************************************)
(* NexGen Command Center (src/app.py): the data engine load_data (two left *)
(* merges, the derived columns, the risk classifier assess_risk), the       *)
(* sidebar filters and the mask, the tab1 metrics, the tab3 cost            *)
(* simulator and the export, as one script run of the Streamlit app.        *)
(*                                                                          *)
(* Representation.                                                          *)
(*  - A cell that pandas holds as NaN is the empty tuple NaN; a present     *)
(*    cell v of a nullable column is the one-element tuple <<v>>.           *)
(*  - Text (Weather_Impact, Order_Date as read from the CSV) is a tuple of  *)
(*    one-character strings, so that lower() and the substring test of      *)
(*    assess_risk are computed, not assumed.                                *)
(*  - A Timestamp is the tuple <<year, month, day>>.                        *)
(*  - Distance_KM is held in hundredths of a kilometre (1.0 km = 100,       *)
(*    0.01 km = 1); Traffic_Delay_Minutes as read is held in tenths of a    *)
(*    minute and astype(int) truncates it to whole minutes.                 *)
(*  - Money is held in tenths of a rupee and the source tables carry        *)
(*    multiples of 1000 INR, so the percentage arithmetic of the simulator  *)
(*    is exact in integers.  Floating-point rounding is not modelled.       *)
(*  - A quotient of two numbers is the pair [num, den].                     *)
(***************************************************************************)
EXTENDS Integers, Sequences, FiniteSets, TLC

VARIABLES orders, delivery, routes, cache, load_failed, df, pc, date_range,
          selected_segments, selected_status, filtered_df, tab1, tab3,
          csv_data, rendered

vars == <<orders, delivery, routes, cache, load_failed, df, pc, date_range,
          selected_segments, selected_status, filtered_df, tab1, tab3,
          csv_data, rendered>>

(* ------------------------------ bounds -------------------------------- *)

\* longest orders / delivery / routes table of the join specification
MaxRows == 2

\* longest orders table of the dashboard specification
MaxOrders == 2

\* largest percentage the simulator specification feeds to the simulator
PctMax == 100

(* --------------------------- program constants ------------------------ *)

TrafficThreshold == 45

FuelSliderMax == 50

GainSliderMax == 30

DistanceDefault == 100

DistanceFloor == 1

(* ------------------------------ values -------------------------------- *)

NaN == <<>>

isna(x) == x = NaN

\* a variable of the script that is not yet bound; the st.cache_data store
\* is NONE when empty and << frame >> when it holds a frame
NONE == <<>>

\* rupees to the money unit of the model (tenths of a rupee)
INR(x) == x * 10

\* s1 ++ s2 ... : the rows of f(1), f(2), ... f(n) one after the other
RECURSIVE Concat(_, _)
Concat(f, n) == IF n = 0 THEN <<>> ELSE Concat(f, n - 1) \o f[n]

RECURSIVE SumSeq(_)
SumSeq(s) == IF s = <<>> THEN 0 ELSE Head(s) + SumSeq(Tail(s))

SeqsUpTo(S, n) == UNION {[1..k -> S] : k \in 0..n}

(* ------------------------------- text --------------------------------- *)

UpperToLower ==
    [c \in {"A","B","C","D","E","F","G","H","I","J","K","L","M","N","O",
            "P","Q","R","S","T","U","V","W","X","Y","Z"} |->
       CASE c = "A" -> "a" [] c = "B" -> "b" [] c = "C" -> "c"
         [] c = "D" -> "d" [] c = "E" -> "e" [] c = "F" -> "f"
         [] c = "G" -> "g" [] c = "H" -> "h" [] c = "I" -> "i"
         [] c = "J" -> "j" [] c = "K" -> "k" [] c = "L" -> "l"
         [] c = "M" -> "m" [] c = "N" -> "n" [] c = "O" -> "o"
         [] c = "P" -> "p" [] c = "Q" -> "q" [] c = "R" -> "r"
         [] c = "S" -> "s" [] c = "T" -> "t" [] c = "U" -> "u"
         [] c = "V" -> "v" [] c = "W" -> "w" [] c = "X" -> "x"
         [] c = "Y" -> "y" [] OTHER -> "z"]

\* str.lower()
lower(s) ==
    [i \in 1..Len(s) |->
       IF s[i] \in DOMAIN UpperToLower THEN UpperToLower[s[i]] ELSE s[i]]

\* sub in s
contains(s, sub) ==
    \E i \in 1..(Len(s) - Len(sub) + 1) :
        SubSeq(s, i, i + Len(sub) - 1) = sub

STR_rain == <<"r","a","i","n">>

STR_storm == <<"s","t","o","r","m">>

STR_fog == <<"f","o","g">>

STR_Clear == <<"C","l","e","a","r">>

STR_HeavyRain == <<"H","e","a","v","y"," ","R","a","i","n">>

STR_FOG == <<"F","O","G">>

STR_Storm == <<"S","t","o","r","m">>

STR_Windy == <<"W","i","n","d","y">>

DigitVal ==
    [c \in {"0","1","2","3","4","5","6","7","8","9"} |->
       CASE c = "0" -> 0 [] c = "1" -> 1 [] c = "2" -> 2 [] c = "3" -> 3
         [] c = "4" -> 4 [] c = "5" -> 5 [] c = "6" -> 6 [] c = "7" -> 7
         [] c = "8" -> 8 [] OTHER -> 9]

\* pd.to_datetime of a text of the form YYYY-MM-DD
to_datetime(s) ==
    << DigitVal[s[1]] * 1000 + DigitVal[s[2]] * 100
         + DigitVal[s[3]] * 10 + DigitVal[s[4]],
       DigitVal[s[6]] * 10 + DigitVal[s[7]],
       DigitVal[s[9]] * 10 + DigitVal[s[10]] >>

\* Timestamp comparison a <= b
DateLeq(a, b) ==
    \/ a[1] < b[1]
    \/ a[1] = b[1] /\ a[2] < b[2]
    \/ a[1] = b[1] /\ a[2] = b[2] /\ a[3] <= b[3]

DATE_Jan30 == <<"2","0","2","4","-","0","1","-","3","0">>

DATE_Feb02 == <<"2","0","2","4","-","0","2","-","0","2">>

DATE_Feb10 == <<"2","0","2","4","-","0","2","-","1","0">>

(* ---------------------------- data engine ----------------------------- *)

\* the delivery columns of a merged row that found no delivery row
NoDelivery ==
    [Promised_Delivery_Days |-> NaN, Actual_Delivery_Days |-> NaN,
     Delivery_Cost_INR |-> NaN]

\* the routes columns of a merged row that found no routes row
NoRoute ==
    [Distance_KM |-> NaN, Weather_Impact |-> NaN,
     Traffic_Delay_Minutes |-> NaN]

\* the rows of right whose key equals k, in the order of right
Matches(right, k) == SelectSeq(right, LAMBDA r : r.Order_ID = k)

\* the merge with how="inner": a left row without a match is dropped
MergeInner(left, right, NoCols) ==
    Concat([i \in 1..Len(left) |->
              LET m == Matches(right, left[i].Order_ID)
              IN  [j \in 1..Len(m) |->
                      left[i] @@ [c \in DOMAIN NoCols |-> m[j][c]]]],
           Len(left))

\* pd.merge(left, right, on="Order_ID", how="left"): every left row, in
\* order, once per matching right row with the columns of right (those of
\* NoCols), or once with NaN in them when none matches
MergeLeft(left, right, NoCols) ==
    Concat([i \in 1..Len(left) |->
              LET m == Matches(right, left[i].Order_ID)
              IN  IF m = <<>>
                  THEN << left[i] @@ NoCols >>
                  ELSE [j \in 1..Len(m) |->
                           left[i] @@ [c \in DOMAIN NoCols |-> m[j][c]]]],
           Len(left))

\* a - b on nullable numbers
NanSub(a, b) == IF isna(a) \/ isna(b) THEN NaN ELSE << a[1] - b[1] >>

\* Series.fillna(v) followed by the unwrapping of the now present cell
fillna(x, v) == IF isna(x) THEN v ELSE x[1]

\* astype(int) of a number of tenths: truncation towards zero
astype_int(t) == IF t >= 0 THEN t \div 10 ELSE -((-t) \div 10)

\* Series.replace(a, b)
replace(x, a, b) == IF x = a THEN b ELSE x

\* the distance column without the replace(0, 0.01)
CleanDistance_NoFloor(x) == fillna(x, DistanceDefault)

\* df["Distance_KM"].fillna(1.0).replace(0, 0.01)
CleanDistance(x) == replace(fillna(x, DistanceDefault), 0, DistanceFloor)

\* lines 56-62: the derived columns of one merged row
Derive(row) ==
    LET dist == CleanDistance(row.Distance_KM)
        cost == fillna(row.Delivery_Cost_INR, 0)
    IN  [row EXCEPT !.Weather_Impact = fillna(row.Weather_Impact, STR_Clear),
                    !.Traffic_Delay_Minutes =
                        astype_int(fillna(row.Traffic_Delay_Minutes, 0)),
                    !.Distance_KM = dist,
                    !.Delivery_Cost_INR = cost]
        @@ [Delay_Days |-> NanSub(row.Actual_Delivery_Days,
                                  row.Promised_Delivery_Days),
            Cost_Per_KM |-> [num |-> cost, den |-> dist]]

\* NaN > 0 is False
NanGt0(x) == IF isna(x) THEN FALSE ELSE x[1] > 0

\* the classifier with the weather rule ahead of the delivered rule
assess_risk_WeatherFirst(row) ==
    LET w == lower(row.Weather_Impact)
    IN  IF contains(w, STR_rain) \/ contains(w, STR_storm)
              \/ contains(w, STR_fog)
        THEN "Predicted Delay: Weather"
        ELSE IF ~ isna(row.Actual_Delivery_Days)
             THEN IF NanGt0(row.Delay_Days) THEN "Late Delivery"
                                            ELSE "Completed"
             ELSE IF row.Traffic_Delay_Minutes > TrafficThreshold
                  THEN "Predicted Delay: Traffic"
                  ELSE "On Track"

\* the classifier with the traffic threshold inclusive
assess_risk_Geq(row) ==
    IF ~ isna(row.Actual_Delivery_Days)
    THEN IF NanGt0(row.Delay_Days) THEN "Late Delivery" ELSE "Completed"
    ELSE LET w == lower(row.Weather_Impact)
         IN  IF contains(w, STR_rain) \/ contains(w, STR_storm)
                   \/ contains(w, STR_fog)
             THEN "Predicted Delay: Weather"
             ELSE IF row.Traffic_Delay_Minutes >= TrafficThreshold
                  THEN "Predicted Delay: Traffic"
                  ELSE "On Track"

assess_risk(row) ==
    IF ~ isna(row.Actual_Delivery_Days)
    THEN IF NanGt0(row.Delay_Days) THEN "Late Delivery" ELSE "Completed"
    ELSE LET w == lower(row.Weather_Impact)
         IN  IF contains(w, STR_rain) \/ contains(w, STR_storm)
                   \/ contains(w, STR_fog)
             THEN "Predicted Delay: Weather"
             ELSE IF row.Traffic_Delay_Minutes > TrafficThreshold
                  THEN "Predicted Delay: Traffic"
                  ELSE "On Track"

\* the delay column without the fillna(0)
FillDelay_None(x) == x

\* df["Delay_Days"].fillna(0): the column stays a float column
FillDelay(x) == IF isna(x) THEN << 0 >> ELSE x

\* lines 78-79 on one derived row
Classify(row) ==
    [row EXCEPT !.Delay_Days = FillDelay(row.Delay_Days)]
    @@ [Status |-> assess_risk(row)]

load_data(o, d, r) ==
    LET m1 == MergeLeft(o, d, NoDelivery)
        m2 == MergeLeft(m1, r, NoRoute)
    IN  [i \in 1..Len(m2) |-> Classify(Derive(m2[i]))]

(* ------------------------- sidebar and filter ------------------------- *)

\* df["Order_Date"] = pd.to_datetime(df["Order_Date"]), in place on df
ConvertDates(d) ==
    [i \in 1..Len(d) |-> [d[i] EXCEPT !.Order_Date = to_datetime(@)]]

Column(d, c) == {d[i][c] : i \in 1..Len(d)}

\* df["Order_Date"].min()
min_date(d) ==
    CHOOSE a \in Column(d, "Order_Date") :
        \A b \in Column(d, "Order_Date") : DateLeq(a, b)

\* df["Order_Date"].max()
max_date(d) ==
    CHOOSE a \in Column(d, "Order_Date") :
        \A b \in Column(d, "Order_Date") : DateLeq(b, a)

\* the days the date picker offers
Calendar == {to_datetime(t) : t \in {DATE_Jan30, DATE_Feb02, DATE_Feb10}}

\* st.date_input(value=(min_date, max_date), min_value=..., max_value=...)
DateInputs(d) ==
    {<<s, e>> \in Calendar \X Calendar :
        /\ DateLeq(min_date(d), s)
        /\ DateLeq(s, e)
        /\ DateLeq(e, max_date(d))}

\* the mask with the end of the date range exclusive
mask_EndExclusive(row, dr, segs, stats) ==
    /\ DateLeq(dr[1], row.Order_Date)
    /\ DateLeq(row.Order_Date, dr[2])
    /\ row.Order_Date # dr[2]
    /\ row.Customer_Segment \in segs
    /\ row.Status \in stats

\* lines 115-120 for one row
mask(row, dr, segs, stats) ==
    /\ DateLeq(dr[1], row.Order_Date)
    /\ DateLeq(row.Order_Date, dr[2])
    /\ row.Customer_Segment \in segs
    /\ row.Status \in stats

(* ------------------------------- tab1 --------------------------------- *)

\* Series.mean(): NaN cells are skipped, the mean of no cell is NaN
mean(s) ==
    LET present == SelectSeq(s, LAMBDA x : ~ isna(x))
    IN  IF present = <<>>
        THEN NaN
        ELSE << [num |-> SumSeq([i \in 1..Len(present) |-> present[i][1]]),
                 den |-> Len(present)] >>

\* Series.str.contains("Predicted|Late") on a status label
str_contains_Predicted_Late(s) ==
    s \in {"Late Delivery", "Predicted Delay: Weather",
           "Predicted Delay: Traffic"}

\* lines 133-138
Tab1Metrics(v) ==
    LET risk_count ==
            Len(SelectSeq(v, LAMBDA r : str_contains_Predicted_Late(r.Status)))
        total_count == Len(v)
    IN  [total_spend |->
             SumSeq([i \in 1..Len(v) |-> v[i].Delivery_Cost_INR]),
         avg_delay |-> mean([i \in 1..Len(v) |-> v[i].Delay_Days]),
         risk_count |-> risk_count,
         total_count |-> total_count,
         risk_ratio |->
             IF total_count > 0
             THEN [num |-> risk_count * 100, den |-> total_count]
             ELSE [num |-> 0, den |-> 1]]

\* lines 140-181: what tab1 puts on the page
Tab1Widgets(v) ==
    {"metrics"}
    \cup (IF \E i \in 1..Len(v) : str_contains_Predicted_Late(v[i].Status)
          THEN {"watchlist"} ELSE {"success"})
    \cup (IF v # <<>> THEN {"fig_map"} ELSE {"info"})

(* ------------------------------- tab3 --------------------------------- *)

\* the simulator with the savings taken on the base cost
Simulate_SavingsOnBase(v, fuel_hike, efficiency_gain) ==
    LET current_cost ==
            SumSeq([i \in 1..Len(v) |-> v[i].Delivery_Cost_INR])
        fuel_impact_amt == (current_cost * fuel_hike) \div 100
        intermediate_cost == current_cost + fuel_impact_amt
        efficiency_savings_amt ==
            ((current_cost * efficiency_gain) \div 100) * (-1)
        projected_cost == intermediate_cost + efficiency_savings_amt
    IN  [fuel_hike |-> fuel_hike,
         efficiency_gain |-> efficiency_gain,
         current_cost |-> current_cost,
         fuel_impact_amt |-> fuel_impact_amt,
         intermediate_cost |-> intermediate_cost,
         efficiency_savings_amt |-> efficiency_savings_amt,
         projected_cost |-> projected_cost,
         variance |-> projected_cost - current_cost,
         waterfall |-> <<current_cost, fuel_impact_amt,
                         efficiency_savings_amt, 0>>]

\* lines 226-233
Simulate(v, fuel_hike, efficiency_gain) ==
    LET current_cost ==
            SumSeq([i \in 1..Len(v) |-> v[i].Delivery_Cost_INR])
        fuel_impact_amt == (current_cost * fuel_hike) \div 100
        intermediate_cost == current_cost + fuel_impact_amt
        efficiency_savings_amt ==
            ((intermediate_cost * efficiency_gain) \div 100) * (-1)
        projected_cost == intermediate_cost + efficiency_savings_amt
    IN  [fuel_hike |-> fuel_hike,
         efficiency_gain |-> efficiency_gain,
         current_cost |-> current_cost,
         fuel_impact_amt |-> fuel_impact_amt,
         intermediate_cost |-> intermediate_cost,
         efficiency_savings_amt |-> efficiency_savings_amt,
         projected_cost |-> projected_cost,
         variance |-> projected_cost - current_cost,
         \* the y series of the waterfall figure
         waterfall |-> <<current_cost, fuel_impact_amt,
                         efficiency_savings_amt, 0>>]

(* ------------------------------ export -------------------------------- *)

CsvHeader ==
    <<"Order_ID", "Order_Date", "Customer_Segment", "Origin",
      "Promised_Delivery_Days", "Actual_Delivery_Days", "Delivery_Cost_INR",
      "Distance_KM", "Weather_Impact", "Traffic_Delay_Minutes",
      "Delay_Days", "Cost_Per_KM", "Status">>

\* filtered_df.to_csv(index=False): the header line, then one line of cells
\* per row in column order
to_csv(v) ==
    << CsvHeader >>
    \o [i \in 1..Len(v) |-> [c \in 1..Len(CsvHeader) |-> v[i][CsvHeader[c]]]]

(* --------------------------- source tables ---------------------------- *)

OrderRow(id, date, seg) ==
    [Order_ID |-> id, Order_Date |-> date, Customer_Segment |-> seg,
     Origin |-> "Mumbai"]

DeliveryRow(id, promised, actual, cost) ==
    [Order_ID |-> id, Promised_Delivery_Days |-> promised,
     Actual_Delivery_Days |-> actual, Delivery_Cost_INR |-> cost]

RouteRow(id, dist, weather, traffic) ==
    [Order_ID |-> id, Distance_KM |-> dist, Weather_Impact |-> weather,
     Traffic_Delay_Minutes |-> traffic]

\* one order against at most one delivery row and one routes row, every
\* cell over the values that matter to the derived columns and to the label
RowDeliveries ==
    {<<>>} \cup
    {<< DeliveryRow(1, p, a, c) >> :
        p \in {NaN, <<2>>}, a \in {NaN, <<1>>, <<2>>, <<3>>},
        c \in {NaN, <<0>>, << INR(1000) >>}}

RowRoutes ==
    {<<>>} \cup
    {<< RouteRow(1, d, w, t) >> :
        d \in {NaN, <<0>>, <<25000>>, <<-500>>},
        w \in {NaN, <<STR_Clear>>, <<STR_HeavyRain>>, <<STR_FOG>>,
               <<STR_Storm>>, <<STR_Windy>>},
        t \in {NaN, <<0>>, <<450>>, <<459>>, <<460>>, <<1000>>}}

\* tables of up to MaxRows rows: Order_ID is unique in orders; delivery and
\* routes have missing, extra and repeated keys
JoinOrders ==
    {[i \in 1..Len(ids) |-> OrderRow(ids[i], DATE_Feb02, "Retail")] :
        ids \in {q \in SeqsUpTo(1..MaxRows, MaxRows) :
                    \A i, j \in 1..Len(q) : q[i] = q[j] => i = j}}

JoinDeliveries ==
    SeqsUpTo({DeliveryRow(id, <<2>>, a, << INR(1000) >>) :
                 id \in 1..3, a \in {NaN, <<3>>}}, MaxRows)

JoinRoutes ==
    SeqsUpTo({RouteRow(id, <<25000>>, <<w>>, <<0>>) :
                 id \in 1..2, w \in {STR_Clear, STR_HeavyRain}}, MaxRows)

\* the tables behind the dashboard: 1..MaxOrders orders with distinct keys
DashOrders ==
    SeqsUpTo({DATE_Jan30, DATE_Feb02, DATE_Feb10}
               \X {"Retail", "Enterprise"}, MaxOrders) \ {<<>>}

DashOrderTable(o) == [i \in 1..Len(o) |-> OrderRow(i, o[i][1], o[i][2])]

DashDeliveries ==
    { <<>>,
      << DeliveryRow(1, <<2>>, <<3>>, << INR(400000) >>) >>,
      << DeliveryRow(1, <<2>>, <<2>>, << INR(600000) >>),
         DeliveryRow(2, <<2>>, NaN, << INR(400000) >>) >> }

DashRoutes ==
    { <<>>,
      << RouteRow(1, <<0>>, <<STR_Clear>>, <<460>>),
         RouteRow(2, <<25000>>, <<STR_HeavyRain>>, <<1000>>) >> }

(* ------------------------------ script -------------------------------- *)

NotRun ==
    /\ df = NONE
    /\ date_range = NONE
    /\ selected_segments = {}
    /\ selected_status = {}
    /\ filtered_df = NONE
    /\ tab1 = NONE
    /\ tab3 = NONE
    /\ csv_data = NONE
    /\ rendered = {}

\* a fresh process: nothing cached, the script about to call load_data
Start(o, d, r) ==
    /\ orders = o
    /\ delivery = d
    /\ routes = r
    /\ cache = NONE
    /\ load_failed = FALSE
    /\ pc = "load"
    /\ NotRun

Init ==
    \E o \in DashOrders, d \in DashDeliveries, r \in DashRoutes :
        Start(DashOrderTable(o), d, r)

InitLoad ==
    \/ \E d \in RowDeliveries, r \in RowRoutes :
           Start(<< OrderRow(1, DATE_Feb02, "Retail") >>, d, r)
    \/ \E o \in JoinOrders, d \in JoinDeliveries, r \in JoinRoutes :
           Start(o, d, r)

\* load_data() on a cache miss: the three files are read, the result is
\* stored by st.cache_data and a copy is handed to the script
LoadMiss ==
    /\ pc = "load"
    /\ cache = NONE
    /\ cache' = << load_data(orders, delivery, routes) >>
    /\ df' = cache'[1]
    /\ pc' = "sidebar"
    /\ UNCHANGED <<orders, delivery, routes, load_failed, date_range,
                   selected_segments, selected_status, filtered_df, tab1,
                   tab3, csv_data, rendered>>

\* load_data() on a cache hit: a copy of the cached frame, no file is read
LoadHit ==
    /\ pc = "load"
    /\ cache # NONE
    /\ df' = cache[1]
    /\ pc' = "sidebar"
    /\ UNCHANGED <<orders, delivery, routes, cache, load_failed, date_range,
                   selected_segments, selected_status, filtered_df, tab1,
                   tab3, csv_data, rendered>>

\* an except branch that does not stop the script
OnLoadError_Continue == [pc |-> "sidebar", df |-> NONE]

\* where the script goes when load_data raises: except Exception: st.stop()
OnLoadError == [pc |-> "stopped", df |-> NONE]

\* pd.read_csv raises on one of the three files
LoadFail ==
    /\ pc = "load"
    /\ cache = NONE
    /\ \E src \in {"orders.csv", "delivery_performance.csv",
                   "routes_distance.csv"} :
           /\ load_failed' = TRUE
           /\ pc' = OnLoadError.pc
           /\ df' = OnLoadError.df
    /\ UNCHANGED <<orders, delivery, routes, cache, date_range,
                   selected_segments, selected_status, filtered_df, tab1,
                   tab3, csv_data, rendered>>

\* lines 89-113
Sidebar ==
    /\ pc = "sidebar"
    /\ df' = ConvertDates(df)
    /\ date_range' \in DateInputs(df')
    /\ selected_segments' \in SUBSET Column(df', "Customer_Segment")
    /\ selected_status' \in SUBSET Column(df', "Status")
    /\ rendered' = rendered \cup {"filters"}
    /\ pc' = "mask"
    /\ UNCHANGED <<orders, delivery, routes, cache, load_failed, filtered_df,
                   tab1, tab3, csv_data>>

\* lines 115-127
Filter ==
    /\ pc = "mask"
    /\ filtered_df' =
           SelectSeq(df, LAMBDA row : mask(row, date_range,
                                          selected_segments, selected_status))
    /\ rendered' = rendered \cup {"header"}
    /\ pc' = "tab1"
    /\ UNCHANGED <<orders, delivery, routes, cache, load_failed, df,
                   date_range, selected_segments, selected_status, tab1,
                   tab3, csv_data>>

\* lines 130-181
Tab1 ==
    /\ pc = "tab1"
    /\ tab1' = Tab1Metrics(filtered_df)
    /\ rendered' = rendered \cup Tab1Widgets(filtered_df)
    /\ pc' = "tab2"
    /\ UNCHANGED <<orders, delivery, routes, cache, load_failed, df,
                   date_range, selected_segments, selected_status,
                   filtered_df, tab3, csv_data>>

\* lines 184-211
Tab2 ==
    /\ pc = "tab2"
    /\ rendered' = rendered \cup
           (IF filtered_df # <<>> THEN {"fig_box", "fig_scatter"} ELSE {})
    /\ pc' = "tab3"
    /\ UNCHANGED <<orders, delivery, routes, cache, load_failed, df,
                   date_range, selected_segments, selected_status,
                   filtered_df, tab1, tab3, csv_data>>

\* lines 214-267, the two sliders set to a value of F and a value of G
Tab3(F, G) ==
    /\ pc = "tab3"
    /\ \E fuel_hike \in F, efficiency_gain \in G :
           tab3' = Simulate(filtered_df, fuel_hike, efficiency_gain)
    /\ rendered' = rendered \cup {"projected_cost", "fig_waterfall"}
    /\ pc' = "export"
    /\ UNCHANGED <<orders, delivery, routes, cache, load_failed, df,
                   date_range, selected_segments, selected_status,
                   filtered_df, tab1, csv_data>>

\* the slider positions the dashboard specification tries
FuelChoices == {0, 15, FuelSliderMax}

GainChoices == {0, 10, GainSliderMax}

Tab3Dash == Tab3(FuelChoices, GainChoices)

\* lines 269-271
Export ==
    /\ pc = "export"
    /\ csv_data' = to_csv(filtered_df)
    /\ rendered' = rendered \cup {"download_button"}
    /\ pc' = "done"
    /\ UNCHANGED <<orders, delivery, routes, cache, load_failed, df,
                   date_range, selected_segments, selected_status,
                   filtered_df, tab1, tab3>>

\* a widget interaction or a page reload: Streamlit runs the script again
\* from the top; only the st.cache_data store outlives the run
Rerun ==
    /\ pc \in {"done", "stopped"}
    /\ pc' = "load"
    /\ load_failed' = FALSE
    /\ df' = NONE
    /\ date_range' = NONE
    /\ selected_segments' = {}
    /\ selected_status' = {}
    /\ filtered_df' = NONE
    /\ tab1' = NONE
    /\ tab3' = NONE
    /\ csv_data' = NONE
    /\ rendered' = {}
    /\ UNCHANGED <<orders, delivery, routes, cache>>

Next ==
    \/ LoadMiss
    \/ LoadHit
    \/ LoadFail
    \/ Sidebar
    \/ Filter
    \/ Tab1
    \/ Tab2
    \/ Tab3Dash
    \/ Export
    \/ Rerun

Spec == Init /\ [][Next]_vars

\* load_data alone, over the wide row values and the irregular tables
NextLoad == LoadMiss

SpecLoad == InitLoad /\ [][NextLoad]_vars

\* the simulator alone: the script at tab3 with one order of cost c in view
\* and every filter at its default, the sliders over 0..PctMax
SimCosts == {0, 1000, 250000, 1000000}

InitSim ==
    \E c \in SimCosts :
        LET o == << OrderRow(1, DATE_Feb02, "Retail") >>
            d == << DeliveryRow(1, <<2>>, <<2>>, << INR(c) >>) >>
            loaded == load_data(o, d, <<>>)
            frame == ConvertDates(loaded)
            dr == << min_date(frame), max_date(frame) >>
            segs == Column(frame, "Customer_Segment")
            stats == Column(frame, "Status")
            view == SelectSeq(frame, LAMBDA row : mask(row, dr, segs, stats))
        IN  /\ orders = o
            /\ delivery = d
            /\ routes = <<>>
            /\ cache = << loaded >>
            /\ load_failed = FALSE
            /\ df = frame
            /\ pc = "tab3"
            /\ date_range = dr
            /\ selected_segments = segs
            /\ selected_status = stats
            /\ filtered_df = view
            /\ tab1 = Tab1Metrics(view)
            /\ tab3 = NONE
            /\ csv_data = NONE
            /\ rendered = {"filters", "header", "fig_box", "fig_scatter"}
                            \cup Tab1Widgets(view)

Tab3Sim == Tab3(0..PctMax, 0..PctMax)

NextSim == Tab3Sim

SpecSim == InitSim /\ [][NextSim]_vars

(* ------------------------------ properties ---------------------------- *)

\* the record set as load_data returned it (the st.cache_data entry)
Loaded == cache # NONE

LoadedRows == {cache[1][i] : i \in 1..Len(cache[1])}

OrderIds == {orders[i].Order_ID : i \in 1..Len(orders)}

\* number of rows of table t that carry the key k
KeyCount(t, k) == Cardinality({i \in 1..Len(t) : t[i].Order_ID = k})

AtLeastOne(n) == IF n = 0 THEN 1 ELSE n

PredictiveLabels ==
    {"Predicted Delay: Weather", "Predicted Delay: Traffic", "On Track"}

\* C1: a row whose Actual_Delivery_Days is present is labelled
\* "Late Delivery" when its Delay_Days is above 0 and "Completed" otherwise,
\* whatever its weather and traffic cells are; it never gets a predictive
\* label.
C1_DeliveredLabel ==
    Loaded =>
        \A row \in LoadedRows :
            ~ isna(row.Actual_Delivery_Days) =>
                /\ row.Delay_Days[1] > 0 => row.Status = "Late Delivery"
                /\ row.Delay_Days[1] <= 0 => row.Status = "Completed"
                /\ row.Status \notin PredictiveLabels

\* C1 witness: a delivered, on-time order under heavy rain and a traffic
\* delay of 100 minutes is "Completed".
C1_Witness ==
    /\ Loaded
    /\ \E row \in LoadedRows :
           /\ ~ isna(row.Actual_Delivery_Days)
           /\ row.Delay_Days[1] <= 0
           /\ row.Weather_Impact = STR_HeavyRain
           /\ row.Traffic_Delay_Minutes = 100
           /\ row.Status = "Completed"

\* the weather texts of the tables that mention rain, storm or fog
WetTexts == {STR_HeavyRain, STR_FOG, STR_Storm}

\* C2: a row whose Actual_Delivery_Days is absent is labelled
\* "Predicted Delay: Weather" when its weather text mentions rain, storm or
\* fog in any letter case, whatever its traffic delay; otherwise
\* "Predicted Delay: Traffic" exactly when the traffic delay is above 45
\* minutes (46 yes, 45 no); otherwise "On Track".
C2_PredictiveLabel ==
    Loaded =>
        \A row \in LoadedRows :
            isna(row.Actual_Delivery_Days) =>
                /\ row.Weather_Impact \in WetTexts \cup {STR_Clear, STR_Windy}
                /\ row.Weather_Impact \in WetTexts
                       => row.Status = "Predicted Delay: Weather"
                /\ row.Weather_Impact \notin WetTexts
                     /\ row.Traffic_Delay_Minutes >= 46
                       => row.Status = "Predicted Delay: Traffic"
                /\ row.Weather_Impact \notin WetTexts
                     /\ row.Traffic_Delay_Minutes <= 45
                       => row.Status = "On Track"

\* C2 witness: an undelivered order under "Heavy Rain" with a traffic delay
\* of 100 minutes is "Predicted Delay: Weather".
C2_Witness ==
    /\ Loaded
    /\ \E row \in LoadedRows :
           /\ isna(row.Actual_Delivery_Days)
           /\ row.Weather_Impact = STR_HeavyRain
           /\ row.Traffic_Delay_Minutes = 100
           /\ row.Status = "Predicted Delay: Weather"

\* C3 as stated: every Order_ID of the orders table is on exactly one row of
\* the record set, whatever the delivery and routes tables hold, and an
\* order without a delivery row has its delivery days null and a predictive
\* label.
C3_ExactlyOnce ==
    Loaded =>
        /\ \A k \in OrderIds : KeyCount(cache[1], k) = 1
        /\ \A row \in LoadedRows :
               KeyCount(delivery, row.Order_ID) = 0 =>
                   /\ isna(row.Actual_Delivery_Days)
                   /\ isna(row.Promised_Delivery_Days)
                   /\ row.Status \in PredictiveLabels

\* C3 amended: every Order_ID of the orders table is in the record set and
\* no other key is; it is on as many rows as it has orders rows times its
\* delivery rows (one if none) times its routes rows (one if none), hence on
\* exactly one row when the key is not repeated in any table; an order
\* without a delivery row has its delivery days null and a predictive label.
C3_LeftJoinCardinality ==
    Loaded =>
        /\ \A row \in LoadedRows : row.Order_ID \in OrderIds
        /\ \A k \in OrderIds :
               /\ KeyCount(cache[1], k) =
                      KeyCount(orders, k)
                        * AtLeastOne(KeyCount(delivery, k))
                        * AtLeastOne(KeyCount(routes, k))
               /\ KeyCount(cache[1], k) >= 1
               /\ (KeyCount(orders, k) = 1 /\ KeyCount(delivery, k) <= 1
                     /\ KeyCount(routes, k) <= 1) => KeyCount(cache[1], k) = 1
        /\ \A row \in LoadedRows :
               KeyCount(delivery, row.Order_ID) = 0 =>
                   /\ isna(row.Actual_Delivery_Days)
                   /\ isna(row.Promised_Delivery_Days)
                   /\ row.Status \in PredictiveLabels

\* C3 witness: one order has two delivery rows and is on two rows, another
\* order has no delivery row and is on one row.
C3_Witness ==
    /\ Loaded
    /\ \E k \in OrderIds :
           KeyCount(delivery, k) = 2 /\ KeyCount(cache[1], k) >= 2
    /\ \E k \in OrderIds :
           KeyCount(delivery, k) = 0 /\ KeyCount(cache[1], k) = 1

\* the Distance_KM cells of the routes rows that a row of the record set can
\* have come from (NaN when the order has no routes row)
RawDistances(row) ==
    IF KeyCount(routes, row.Order_ID) = 0
    THEN {NaN}
    ELSE {routes[i].Distance_KM :
             i \in {j \in 1..Len(routes) :
                       routes[j].Order_ID = row.Order_ID}}

\* C4 as stated: every row of the record set has Distance_KM above 0.
C4_DistancePositive ==
    Loaded =>
        \A row \in LoadedRows :
            row.Distance_KM > 0 /\ row.Cost_Per_KM.den # 0

\* C4 amended: every row of the record set has Distance_KM different from 0
\* (a missing distance is 1.0, a distance of 0 is 0.01, any other distance,
\* a negative one included, is kept; the result is above 0 whenever the
\* input is missing or not negative), and Cost_Per_KM is Delivery_Cost_INR
\* over that distance, so its divisor is never zero.
C4_DistanceNonZero ==
    Loaded =>
        \A row \in LoadedRows :
            /\ row.Distance_KM # 0
            /\ row.Cost_Per_KM =
                   [num |-> row.Delivery_Cost_INR, den |-> row.Distance_KM]
            /\ \E raw \in RawDistances(row) :
                   /\ isna(raw) => row.Distance_KM = 100
                   /\ raw = <<0>> => row.Distance_KM = 1
                   /\ (~ isna(raw) /\ raw # <<0>>)
                          => row.Distance_KM = raw[1]
                   /\ (isna(raw) \/ raw[1] >= 0) => row.Distance_KM > 0

\* C4 witness: an order whose only routes row has distance 0 gets 0.01.
C4_Witness ==
    /\ Loaded
    /\ \E row \in LoadedRows :
           RawDistances(row) = {<<0>>} /\ row.Distance_KM = 1

\* C5 as stated: over a view of zero rows every tab1 aggregate and the
\* simulator's base cost is 0 and none is NaN.
C5_EmptyViewAggregatesZero ==
    (tab1 # NONE /\ filtered_df = <<>>) =>
        /\ tab1.total_spend = 0
        /\ ~ isna(tab1.avg_delay)
        /\ tab1.avg_delay[1].num = 0
        /\ tab1.risk_count = 0
        /\ tab1.total_count = 0
        /\ tab1.risk_ratio.num = 0
        /\ tab3 # NONE => tab3.current_cost = 0

\* C6: the simulator's outputs are fuelImpact = base * fuel / 100,
\* efficiencySavings = -(base + fuelImpact) * gain / 100 (taken on the
\* fuel-inflated cost), projected = base + fuelImpact + efficiencySavings and
\* variance = projected - base, for every base cost and percentages in
\* 0..PctMax; (1 000 000, 15, 10) gives 150 000, -115 000, 1 035 000 and
\* 35 000; the waterfall series is base, fuelImpact, efficiencySavings.
C6_WaterfallIdentity ==
    tab3 # NONE =>
        /\ tab3.current_cost =
               SumSeq([i \in 1..Len(filtered_df) |->
                          filtered_df[i].Delivery_Cost_INR])
        /\ tab3.fuel_impact_amt * 100 = tab3.current_cost * tab3.fuel_hike
        /\ tab3.efficiency_savings_amt * 100 =
               0 - (tab3.current_cost + tab3.fuel_impact_amt)
                     * tab3.efficiency_gain
        /\ tab3.current_cost + tab3.fuel_impact_amt
               + tab3.efficiency_savings_amt = tab3.projected_cost
        /\ tab3.variance = tab3.projected_cost - tab3.current_cost
        /\ tab3.waterfall[1] + tab3.waterfall[2] + tab3.waterfall[3]
               = tab3.projected_cost
        /\ (tab3.current_cost = INR(1000000) /\ tab3.fuel_hike = 15
              /\ tab3.efficiency_gain = 10) =>
               /\ tab3.fuel_impact_amt = INR(150000)
               /\ tab3.intermediate_cost = INR(1150000)
               /\ tab3.efficiency_savings_amt = 0 - INR(115000)
               /\ tab3.projected_cost = INR(1035000)
               /\ tab3.variance = INR(35000)

\* C6 witness: the simulator has run on a base cost of 1 000 000 with a fuel
\* increase of 15 % and an efficiency gain of 10 %.
C6_Witness ==
    /\ tab3 # NONE
    /\ tab3.current_cost = INR(1000000)
    /\ tab3.fuel_hike = 15
    /\ tab3.efficiency_gain = 10
    /\ tab3.projected_cost = INR(1035000)

\* C7: in a run in which load_data raised, the script is stopped and no
\* filter, metric, chart, simulator or export step has run: no frame, no
\* view, no aggregate, no export and nothing on the page.
C7_LoadFailureHalts ==
    load_failed =>
        /\ pc = "stopped"
        /\ df = NONE
        /\ date_range = NONE
        /\ filtered_df = NONE
        /\ tab1 = NONE
        /\ tab3 = NONE
        /\ csv_data = NONE
        /\ rendered = {}

\* C7 witness: a run whose load_data raised and that st.stop() halted.
C7_Witness == load_failed /\ pc = "stopped" /\ cache = NONE

\* C8 as stated: Delay_Days is never null; it is Actual_Delivery_Days minus
\* Promised_Delivery_Days when Actual_Delivery_Days is present and 0
\* otherwise; the label is the one the classifier gives before the zero-fill
\* and the zero-fill does not change it.
C8_DelayFromActual ==
    Loaded =>
        \A row \in LoadedRows :
            /\ ~ isna(row.Delay_Days)
            /\ ~ isna(row.Actual_Delivery_Days) =>
                   row.Delay_Days = NanSub(row.Actual_Delivery_Days,
                                           row.Promised_Delivery_Days)
            /\ isna(row.Actual_Delivery_Days) => row.Delay_Days = <<0>>

\* C8 amended: Delay_Days is never null; it is Actual_Delivery_Days minus
\* Promised_Delivery_Days when both are present and 0 otherwise (also when
\* only Promised_Delivery_Days is missing); the label is the one the
\* classifier gives on the row before the zero-fill, and classifying the
\* zero-filled row gives the same label.
C8_DelayDefined ==
    Loaded =>
        \A row \in LoadedRows :
            LET a == row.Actual_Delivery_Days
                p == row.Promised_Delivery_Days
            IN  /\ ~ isna(row.Delay_Days)
                /\ (~ isna(a) /\ ~ isna(p)) => row.Delay_Days = <<a[1] - p[1]>>
                /\ (isna(a) \/ isna(p)) => row.Delay_Days = <<0>>
                /\ row.Status =
                       assess_risk([row EXCEPT !.Delay_Days = NanSub(a, p)])
                /\ row.Status = assess_risk(row)

\* C8 witness: an undelivered order has Delay_Days 0 and a predictive label.
C8_Witness ==
    /\ Loaded
    /\ \E row \in LoadedRows :
           /\ isna(row.Actual_Delivery_Days)
           /\ ~ isna(row.Promised_Delivery_Days)
           /\ row.Delay_Days = <<0>>
           /\ row.Status \in PredictiveLabels

\* the filter of this run has been applied
Filtered == pc \in {"tab1", "tab2", "tab3", "export", "done"}

\* a Timestamp as one number
DayNumber(t) == t[1] * 10000 + t[2] * 100 + t[3]

\* the three conditions of the filter on one row of the frame
InView(row) ==
    /\ DayNumber(date_range[1]) <= DayNumber(row.Order_Date)
    /\ DayNumber(row.Order_Date) <= DayNumber(date_range[2])
    /\ row.Customer_Segment \in selected_segments
    /\ row.Status \in selected_status

\* C9: the filtered view holds exactly the rows of the frame whose
\* Order_Date is within the date range, both ends included, whose
\* Customer_Segment is selected and whose Status is selected; an empty
\* segment or status selection gives an empty view.
C9_ViewIsConjunction ==
    Filtered =>
        /\ \A j \in 1..Len(filtered_df) :
               /\ InView(filtered_df[j])
               /\ \E i \in 1..Len(df) : df[i] = filtered_df[j]
        /\ Len(filtered_df) =
               Cardinality({i \in 1..Len(df) : InView(df[i])})
        /\ \A i \in 1..Len(df) :
               InView(df[i]) =>
                   \E j \in 1..Len(filtered_df) : filtered_df[j] = df[i]
        /\ (selected_segments = {} \/ selected_status = {})
               => filtered_df = <<>>

\* C9 witness: a view that keeps an order dated on the last day of the range
\* and drops another order.
C9_Witness ==
    /\ Filtered
    /\ Len(filtered_df) < Len(df)
    /\ date_range[1] # date_range[2]
    /\ \E j \in 1..Len(filtered_df) :
           filtered_df[j].Order_Date = date_range[2]

\* C10 as stated: while a run holds the record set that load_data returned,
\* every field of every record is as load_data produced it.
C10_LoadedSetNeverMutated ==
    pc \notin {"load", "stopped"} => df = cache[1]

====
